---- MODULE Spec2Model ----
(***************************************************************************)
(* pylgbst communication layer (pylgbst/comms.py): the Requester's         *)
(* notification queue and dispatcher thread, BLEConnection, the DebugServer *)
(* TCP relay and its client DebugServerConnection, and the LED command      *)
(* recorded by the unit tests' ConnectionMock.                              *)
(***************************************************************************)
EXTENDS Integers, Sequences, FiniteSets, TLC

\* ------------------------------------------------------------------ bounds
\* notifications gattlib hands to Requester.on_notification in one run
MaxNotif == 3

\* peripheral commands issued on one hub
MaxCmds == 3
\* lines a DebugServerConnection is sent in one run
MaxLines == 3
\* client connections made to the DebugServer in one run
MaxConns == 2
\* lines clients send to the DebugServer in one run
MaxWrites == 3
MaxRounds == 3

\* ------------------------------------------------------------- constants
\* Python's None
None == "None"

\* the dispatcher holds no dequeued item
NoItem == [handle |-> 0, data |-> <<>>, id |-> 0]

\* pylgbst.constants.MSG_DEVICE_SHUTDOWN (imported at comms.py:14)
MSG_DEVICE_SHUTDOWN == 2

LEGO_MOVE_HUB == "LEGO Move Hub"

\* ---------------------------------------------------------------- inputs
\* Notification payloads (byte strings): a sensor value frame and the hub's
\* shutdown frame (byte 5 is the message type).
DataSensor == <<27, 14, 0, 5, 0, 69>>
DataShutdown == <<27, 14, 0, 4, 0, MSG_DEVICE_SHUTDOWN>>

\* (handle, data) pairs gattlib may deliver
Notifications == { <<14, DataSensor>>, <<15, DataShutdown>> }

\* callables an application registers as notification sink
UserHandlers == {"h1", "h2"}

\* service.discover(1) results: address -> name
DiscoverResults ==
    { <<>>,
      <<[address |-> "00:16:53:A1", name |-> LEGO_MOVE_HUB]>>,
      <<[address |-> "00:16:53:B2", name |-> "Other"]>>,
      <<[address |-> "00:16:53:B2", name |-> "Other"],
        [address |-> "00:16:53:A1", name |-> LEGO_MOVE_HUB]>> }

HubMacs == {None, "00:16:53:B2"}

\* (handle, data) pairs an application writes through DebugServerConnection
WriteInputs == { <<14, <<10, 220>>>>, <<15, <<255>>>> }

\* ----------------------------------------------------------------- state
VARIABLES
    requester,          \* BLEConnection.requester: None or the address the Requester is bound to
    notification_sink,  \* Requester.notification_sink
    notify_queue,       \* Requester._notify_queue (FIFO of entries)
    dpc,                \* position of the "Notify queue dispatcher" thread
    cur,                \* (handle, data) the dispatcher has dequeued, or NoItem
    callee,             \* the callable whose invocation is in progress, or None
    received,           \* history: every on_notification call, in call order
    delivered,          \* history: every sink invocation, in invocation order
    dropped,            \* history: ids dropped with "Dropped notification"
    failed,             \* history: ids logged with "Failed to dispatch notification"
    lastSet,            \* history: the handler of the latest set_notify_handler call
    eligible,           \* history: handlers registered at some moment since cur was dequeued
    running,            \* DebugServer._running
    spc,                \* position of the thread running DebugServer.start
    conn,               \* start's local conn: the accepted connection (0: none yet)
    buf,                \* _handle_conn's local buf
    tconn,              \* the conn the running _notify call was given (0: none)
    nconn,              \* client connections made so far; they are numbered 1..nconn
    pending,            \* connections in the listen backlog, not yet accepted
    c2s,                \* per connection: what the client sent and the server has not received
    cclosed,            \* connections the client has closed
    sclosed,            \* connections the server has closed (conn.close())
    s2c,                \* history, per connection: notifications sent with conn.send
    sendErrors,         \* history: conn.send calls that raised, as (connection, closed by server)
    bleWrites,          \* history: ble.write calls, in call order
    clientWrites,       \* history, per connection: DebugServerConnection.write calls
    linesSent,          \* history, per connection: newline-terminated lines sent
    linesHandled,       \* history, per connection: lines _handle_conn took from buf
    notify_handler,     \* DebugServerConnection.notify_handler
    cbuf,               \* DebugServerConnection.buf
    incoming,           \* DebugServerConnection.incoming
    rpc,                \* position of the "Debug connection reader" thread (_recv)
    citem,              \* _recv's local item: the parsed line being routed
    wire,               \* what the server sent and the reader has not received
    srvGone,            \* the server has closed the connection
    forwarded,          \* history: notifications the server sent with _notify
    peerLines,          \* history: number of lines sent to the client in any other way
    cdelivered,         \* history: invocations of the client's notify handler
    handlerKept,        \* history: a handler was set whenever a notification was forwarded, and since
    ragged,             \* history: some recv() chunk held two line ends and ended inside a line
    hub,                \* the hub object of the unit tests: "none", "HubMock" or "MoveHub"
    writes,             \* ConnectionMock.writes
    calls,              \* history: the peripheral commands issued, in call order
    attached,           \* the attach frame for port 0x39 was processed (hub.motor_AB exists)
    working,            \* a motor command of the HubMock revision awaits its acknowledgement
    badLines,           \* history: per connection, which of the lines sent (by position) were no valid write
    cmdErrors,          \* history: per connection, the "Failed to handle cmd" errors logged
    handlerErrors,      \* history: the "Failed to notify handler" errors logged by _recv
    acceptMark,         \* history: how many sink invocations had started when conn was accepted
    cpc,                \* where a call of BLEConnection.connect is: "idle", "loop" or "returned"
    call_mac,           \* the hub_mac argument of the connect call in progress
    discovered,         \* what the last service.discover(1) returned
    rounds,             \* history: the number of service.discover(1) calls of step-wise connect calls
    created,            \* history: the number of Requester objects (and dispatcher threads) they created
    setError            \* history: what the last set_notify_handler call raised, "none" if it returned

reqVars == <<requester, notification_sink, notify_queue, dpc, cur, callee,
             received, delivered, dropped, failed, lastSet, eligible>>

srvVars == <<running, spc, conn, buf, tconn, nconn, pending, c2s, cclosed, sclosed,
             s2c, sendErrors, bleWrites, clientWrites, linesSent, linesHandled>>

cliVars == <<notify_handler, cbuf, incoming, rpc, citem, wire, srvGone, forwarded,
             peerLines, cdelivered, handlerKept, ragged>>

hubVars == <<hub, writes, calls, attached, working>>

conVars == <<cpc, call_mac, discovered, rounds, created>>

auxVars == <<badLines, cmdErrors, handlerErrors, acceptMark, conVars, setError>>

vars == <<reqVars, srvVars, cliVars, hubVars, auxVars>>

\* -------------------------------------------------------------- Requester

\* Requester.__init__ (comms.py:29-37), with BLEConnection.__init__ before connect
InitRequester ==
    /\ requester = None
    /\ notification_sink = None
    /\ notify_queue = <<>>
    /\ dpc = "nothread"
    /\ cur = NoItem
    /\ callee = None
    /\ received = <<>>
    /\ delivered = <<>>
    /\ dropped = <<>>
    /\ failed = <<>>
    /\ lastSet = None
    /\ eligible = {}
    /\ cpc = "idle"
    /\ call_mac = None
    /\ discovered = <<>>
    /\ rounds = 0
    /\ created = 0
    /\ setError = "none"

\* faulty variant: any discovered device is accepted
MatchingAny(devices, hub_mac) == 1..Len(devices)

\* the devices of a discovery round that connect() accepts (comms.py:90)
Matching(devices, hub_mac) ==
    { i \in 1..Len(devices) :
        devices[i].name = LEGO_MOVE_HUB \/ hub_mac = devices[i].address }

\* BLEConnection.connect (comms.py:81-98): one pass of the while loop; the for
\* loop takes the first matching item in the dict's iteration order
connect(devices, hub_mac) ==
    /\ UNCHANGED hubVars
    /\ UNCHANGED auxVars
    /\ UNCHANGED cliVars
    /\ UNCHANGED srvVars
    /\ requester = None
    /\ IF Matching(devices, hub_mac) = {}
       THEN UNCHANGED <<requester, notification_sink, notify_queue, dpc>>
       ELSE LET first == CHOOSE i \in Matching(devices, hub_mac) :
                            \A j \in Matching(devices, hub_mac) : i <= j
            IN /\ requester' = devices[first].address
               /\ notification_sink' = None
               /\ notify_queue' = <<>>
               /\ dpc' = "get"
    /\ UNCHANGED <<cur, callee, received, delivered, dropped, failed, lastSet, eligible>>

\* BLEConnection.connect, lines 81-82: the call starts
ConnectCall(hub_mac) ==
    /\ UNCHANGED hubVars
    /\ UNCHANGED <<cliVars, srvVars, reqVars>>
    /\ UNCHANGED <<badLines, cmdErrors, handlerErrors, acceptMark, setError>>
    /\ cpc = "idle"
    /\ cpc' = "loop"
    /\ call_mac' = hub_mac
    /\ UNCHANGED <<discovered, rounds, created>>

\* BLEConnection.connect, lines 84-96: the loop test and one pass of the
\* loop: discover, then the first matching item in the dict's iteration order
\* gets a Requester (whose __init__ starts the dispatcher thread) and the
\* loop is left
ConnectPass(devices) ==
    /\ UNCHANGED hubVars
    /\ UNCHANGED <<cliVars, srvVars>>
    /\ UNCHANGED <<badLines, cmdErrors, handlerErrors, acceptMark, setError>>
    /\ cpc = "loop"
    /\ IF requester # None
       THEN /\ cpc' = "returned"
            /\ UNCHANGED <<requester, notification_sink, notify_queue, dpc,
                           discovered, rounds, created>>
       ELSE /\ rounds < MaxRounds
            /\ rounds' = rounds + 1
            /\ discovered' = devices
            /\ IF Matching(devices, call_mac) = {}
               THEN UNCHANGED <<requester, notification_sink, notify_queue, dpc,
                                cpc, created>>
               ELSE LET first == CHOOSE i \in Matching(devices, call_mac) :
                                    \A j \in Matching(devices, call_mac) : i <= j
                    IN /\ requester' = devices[first].address
                       /\ notification_sink' = None
                       /\ notify_queue' = <<>>
                       /\ dpc' = "get"
                       /\ created' = created + 1
                       /\ cpc' = "returned"
    /\ UNCHANGED <<cur, callee, received, delivered, dropped, failed, lastSet, eligible,
                   call_mac>>

\* BLEConnection.connect, line 98: return self
ConnectReturn ==
    /\ UNCHANGED hubVars
    /\ UNCHANGED <<cliVars, srvVars, reqVars>>
    /\ UNCHANGED <<badLines, cmdErrors, handlerErrors, acceptMark, setError>>
    /\ cpc = "returned"
    /\ cpc' = "idle"
    /\ UNCHANGED <<call_mac, discovered, rounds, created>>

\* faulty variant: a bounded queue of one slot whose put drops when full
QueuePutBounded(q, item) == IF Len(q) >= 1 THEN q ELSE Append(q, item)

\* queue.Queue.put on the unbounded queue (comms.py:33, 41)
QueuePut(q, item) == Append(q, item)

\* faulty variant: a LIFO queue, get takes the newest item
QueueGetNewest(q) == [item |-> q[Len(q)], rest |-> SubSeq(q, 1, Len(q) - 1)]

\* queue.Queue.get: the oldest item, removed from the queue (comms.py:48)
QueueGet(q) == [item |-> Head(q), rest |-> Tail(q)]

\* Requester.on_notification (comms.py:39-41), called from gattlib's thread
on_notification(handle, data) ==
    /\ UNCHANGED hubVars
    /\ UNCHANGED auxVars
    /\ UNCHANGED cliVars
    /\ UNCHANGED srvVars
    /\ requester # None
    /\ Len(received) < MaxNotif
    /\ notify_queue' = QueuePut(notify_queue,
                                [handle |-> handle, data |-> data, id |-> Len(received) + 1])
    /\ received' = Append(received,
                          [handle |-> handle, data |-> data, busy |-> (dpc = "insink")])
    /\ UNCHANGED <<requester, notification_sink, dpc, cur, callee,
                   delivered, dropped, failed, lastSet, eligible>>

\* _dispatch_notifications, line 48: handle, data = self._notify_queue.get()
DispatchGet ==
    /\ UNCHANGED hubVars
    /\ UNCHANGED auxVars
    /\ UNCHANGED cliVars
    /\ UNCHANGED srvVars
    /\ dpc = "get"
    /\ notify_queue # <<>>
    /\ cur' = QueueGet(notify_queue).item
    /\ notify_queue' = QueueGet(notify_queue).rest
    /\ eligible' = {lastSet}
    /\ dpc' = "check"
    /\ UNCHANGED <<requester, notification_sink, callee, received, delivered,
                   dropped, failed, lastSet>>

\* _dispatch_notifications, lines 49 and 55-56: if self.notification_sink ... else
DispatchCheck ==
    /\ UNCHANGED hubVars
    /\ UNCHANGED auxVars
    /\ UNCHANGED cliVars
    /\ UNCHANGED srvVars
    /\ dpc = "check"
    /\ IF notification_sink # None
       THEN /\ dpc' = "call"
            /\ UNCHANGED <<cur, dropped, eligible>>
       ELSE /\ dropped' = Append(dropped, cur.id)
            /\ dpc' = "get"
            /\ cur' = NoItem
            /\ eligible' = {}
    /\ UNCHANGED <<requester, notification_sink, notify_queue, callee, received,
                   delivered, failed, lastSet>>

\* what the sink is called with (comms.py:51)
SinkArgs(item) == [handle |-> item.handle, data |-> item.data]

\* faulty variant: the sink is started and not waited for
SinkEnteredDetached == "get"

\* the call at comms.py:51 is synchronous: the dispatcher thread itself runs
\* the sink and reaches line 47 again only when the sink has returned or raised
SinkEntered == "insink"

\* _dispatch_notifications, line 51: self.notification_sink(handle, data); the
\* attribute is read again, and calling None raises TypeError (lines 52-54)
DispatchCall ==
    /\ UNCHANGED hubVars
    /\ UNCHANGED auxVars
    /\ UNCHANGED cliVars
    /\ UNCHANGED srvVars
    /\ dpc = "call"
    /\ IF notification_sink # None
       THEN /\ callee' = notification_sink
            /\ delivered' = Append(delivered,
                                   [id |-> cur.id, args |-> SinkArgs(cur)])
            /\ dpc' = SinkEntered
            /\ UNCHANGED <<cur, failed, eligible>>
       ELSE /\ failed' = Append(failed, cur.id)
            /\ dpc' = "get"
            /\ cur' = NoItem
            /\ eligible' = {}
            /\ UNCHANGED <<callee, delivered>>
    /\ UNCHANGED <<requester, notification_sink, notify_queue, received, dropped,
                   lastSet>>

\* faulty variant: the exception leaves _dispatch_notifications and the thread ends
AfterSinkRaisedStop == "stopped"

\* where the dispatcher continues after the sink raised (comms.py:52-54, 47)
AfterSinkRaised == "get"

\* the sink returns normally (comms.py:51, back to line 47)
SinkReturn ==
    /\ UNCHANGED hubVars
    /\ UNCHANGED auxVars
    /\ UNCHANGED cliVars
    /\ UNCHANGED srvVars
    /\ dpc = "insink"
    /\ callee \in UserHandlers
    /\ dpc' = "get"
    /\ cur' = NoItem
    /\ callee' = None
    /\ eligible' = {}
    /\ UNCHANGED <<requester, notification_sink, notify_queue, received, delivered,
                   dropped, failed, lastSet>>

\* the sink raises: except BaseException logs two warnings (comms.py:52-54)
SinkRaise ==
    /\ UNCHANGED hubVars
    /\ UNCHANGED auxVars
    /\ UNCHANGED cliVars
    /\ UNCHANGED srvVars
    /\ dpc = "insink"
    /\ callee \in UserHandlers
    /\ failed' = Append(failed, cur.id)
    /\ dpc' = AfterSinkRaised
    /\ cur' = NoItem
    /\ callee' = None
    /\ eligible' = {}
    /\ UNCHANGED <<requester, notification_sink, notify_queue, received, delivered,
                   dropped, lastSet>>

\* faulty variant: a registration is ignored while a handler is already registered
SinkKeepFirst(old, handler) == IF old = None THEN handler ELSE old

\* the assignment of BLEConnection.set_notify_handler (comms.py:103)
SinkAfterSet(old, handler) == handler

\* the test of comms.py:101 left out: the handler is stored whatever
\* self.requester is
HasRequesterUnchecked(r) == TRUE

\* comms.py:101, "if self.requester:"; a Requester object is truthy, None is not
HasRequester(r) == r # None

\* BLEConnection.set_notify_handler (comms.py:100-105); without a requester it
\* raises RuntimeError (line 105) to its caller and changes nothing
set_notify_handler(handler) ==
    /\ UNCHANGED hubVars
    /\ UNCHANGED <<badLines, cmdErrors, handlerErrors, acceptMark, conVars>>
    /\ UNCHANGED cliVars
    /\ UNCHANGED srvVars
    /\ IF HasRequester(requester)
       THEN /\ notification_sink' = SinkAfterSet(notification_sink, handler)
            /\ lastSet' = handler
            /\ eligible' = IF cur # NoItem THEN eligible \cup {handler} ELSE eligible
            /\ setError' = "none"
       ELSE /\ UNCHANGED <<notification_sink, lastSet, eligible>>
            /\ setError' = "RuntimeError"
    /\ UNCHANGED <<requester, notify_queue, dpc, cur, callee, received, delivered,
                   dropped, failed>>


\* ------------------------------------------------------ hex and JSON text

\* binascii.hexlify's alphabet
HexDigits == <<"0", "1", "2", "3", "4", "5", "6", "7", "8", "9", "a", "b", "c", "d", "e", "f">>

RECURSIVE str2hex(_)
\* pylgbst.utilities.str2hex: two lowercase hex digits per byte
str2hex(data) ==
    IF data = <<>> THEN <<>>
    ELSE <<HexDigits[(Head(data) \div 16) + 1], HexDigits[(Head(data) % 16) + 1]>>
         \o str2hex(Tail(data))

\* the value of one hex digit
HexVal(ch) == CHOOSE v \in 0..15 : HexDigits[v + 1] = ch

\* what unhexlify raises on (TypeError): stands for "no bytes"
HexError == <<-1>>

\* binascii.unhexlify (comms.py:10, 199, 253): pairs of hex digits to bytes
unhexlify(hex) ==
    IF Len(hex) % 2 # 0 \/ \E i \in 1..Len(hex) : \A v \in 1..16 : HexDigits[v] # hex[i]
    THEN HexError
    ELSE [i \in 1..(Len(hex) \div 2) |-> 16 * HexVal(hex[2 * i - 1]) + HexVal(hex[2 * i])]

\* A socket carries text; the model cuts it into pieces: the newline, the
\* braces of a JSON object, the text between the braces, and other text.
Tok(kind) == [k |-> kind, type |-> "", handle |-> 0, data |-> <<>>]
NL == Tok("nl")
LB == Tok("{")
RB == Tok("}")
Junk == Tok("junk")

\* a key the JSON object does not have
NoKey == "<no key>"

\* the text between the braces of {"type": .., "handle": .., "data": ..}
Body(type, handle, data) == [k |-> "body", type |-> type, handle |-> handle, data |-> data]

\* json.dumps(payload) (comms.py:158, 235)
JsonDumps(payload) == <<LB, payload, RB>>

\* json.loads raised ValueError
JsonError == Tok("error")

\* json.loads(line) (comms.py:191, 250)
JsonLoads(line) ==
    IF Len(line) = 3 /\ line[1] = LB /\ line[2].k = "body" /\ line[3] = RB
    THEN line[2]
    ELSE JsonError

\* "\n" in buf
HasNL(b) == \E i \in 1..Len(b) : b[i] = NL
\* buf.index("\n")
IndexNL(b) == CHOOSE i \in 1..Len(b) : b[i] = NL /\ \A j \in 1..(i - 1) : b[j] # NL
\* buf[:buf.index("\n")]
LineOf(b) == SubSeq(b, 1, IndexNL(b) - 1)
\* buf[buf.index("\n") + 1:]
RestOf(b) == SubSeq(b, IndexNL(b) + 1, Len(b))

\* ------------------------------------------------------------ DebugServer

\* DebugServer.__init__ (comms.py:121-124), no client yet
InitServer ==
    /\ running = FALSE
    /\ spc = "init"
    /\ conn = 0
    /\ buf = <<>>
    /\ tconn = 0
    /\ nconn = 0
    /\ pending = <<>>
    /\ c2s = [c \in 1..MaxConns |-> <<>>]
    /\ cclosed = {}
    /\ sclosed = {}
    /\ s2c = [c \in 1..MaxConns |-> <<>>]
    /\ sendErrors = <<>>
    /\ bleWrites = <<>>
    /\ clientWrites = [c \in 1..MaxConns |-> <<>>]
    /\ linesSent = [c \in 1..MaxConns |-> 0]
    /\ linesHandled = [c \in 1..MaxConns |-> 0]
    /\ badLines = [c \in 1..MaxConns |-> {}]
    /\ cmdErrors = [c \in 1..MaxConns |-> 0]
    /\ acceptMark = 0

\* DebugServer.start, lines 127-130: bind, listen, self._running = True
start ==
    /\ UNCHANGED hubVars
    /\ UNCHANGED auxVars
    /\ UNCHANGED cliVars
    /\ spc = "init"
    /\ requester # None
    /\ running' = TRUE
    /\ spc' = "loop"
    /\ UNCHANGED <<conn, buf, tconn, nconn, pending, c2s, cclosed, sclosed, s2c,
                   sendErrors, bleWrites, clientWrites, linesSent, linesHandled>>
    /\ UNCHANGED reqVars

\* DebugServer.start, line 131: while self._running
StartLoop ==
    /\ UNCHANGED hubVars
    /\ UNCHANGED auxVars
    /\ UNCHANGED cliVars
    /\ spc = "loop"
    /\ spc' = IF running THEN "accept" ELSE "returned"
    /\ UNCHANGED <<running, conn, buf, tconn, nconn, pending, c2s, cclosed, sclosed, s2c,
                   sendErrors, bleWrites, clientWrites, linesSent, linesHandled>>
    /\ UNCHANGED reqVars

\* DebugServer.start, line 133: conn, addr = self.sock.accept()
StartAccept ==
    /\ UNCHANGED hubVars
    /\ UNCHANGED <<badLines, cmdErrors, handlerErrors, conVars, setError>>
    /\ acceptMark' = Len(delivered)
    /\ UNCHANGED cliVars
    /\ spc = "accept"
    /\ pending # <<>>
    /\ conn' = Head(pending)
    /\ pending' = Tail(pending)
    /\ spc' = "chk"
    /\ UNCHANGED <<running, buf, tconn, nconn, c2s, cclosed, sclosed, s2c,
                   sendErrors, bleWrites, clientWrites, linesSent, linesHandled>>
    /\ UNCHANGED reqVars

\* DebugServer.start, lines 134-135: if not self._running: raise KeyboardInterrupt
StartCheckRunning ==
    /\ UNCHANGED hubVars
    /\ UNCHANGED auxVars
    /\ UNCHANGED cliVars
    /\ spc = "chk"
    /\ spc' = IF running THEN "setsink" ELSE "interrupted"
    /\ UNCHANGED <<running, conn, buf, tconn, nconn, pending, c2s, cclosed, sclosed, s2c,
                   sendErrors, bleWrites, clientWrites, linesSent, linesHandled>>
    /\ UNCHANGED reqVars

\* DebugServer.start, line 136, and _handle_conn, line 175: the sink becomes the
\* lambda that forwards to _notify(conn, ..); buf = ""
StartSetSink ==
    /\ UNCHANGED hubVars
    /\ UNCHANGED auxVars
    /\ UNCHANGED cliVars
    /\ spc = "setsink"
    /\ notification_sink' = "notify"
    /\ buf' = <<>>
    /\ spc' = "recv"
    /\ UNCHANGED <<running, conn, tconn, nconn, pending, c2s, cclosed, sclosed, s2c,
                   sendErrors, bleWrites, clientWrites, linesSent, linesHandled>>
    /\ UNCHANGED <<requester, notify_queue, dpc, cur, callee, received, delivered,
                   dropped, failed, lastSet, eligible>>

\* DebugServer._handle_cmd (comms.py:197-201) on json.loads(line): the ble.write
\* calls it makes; KeyError, ValueError and TypeError are logged by the caller
\* (comms.py:194-195) and make none
HandleCmdWrites(line) ==
    LET cmd == JsonLoads(line)
    IN IF cmd = JsonError \/ cmd.type # "write" THEN <<>>
       ELSE IF unhexlify(cmd.data) = HexError THEN <<>>
       ELSE <<[handle |-> cmd.handle, data |-> unhexlify(cmd.data)]>>

\* how many lines one pass of _handle_conn's loop takes from buf
\* (comms.py:184-186: if "\n" in buf)
LinesTaken(b) == IF HasNL(b) THEN 1 ELSE 0

\* faulty variant: the error leaves _handle_conn, start() logs it and closes
AfterCmdFailedLeave == "finally"

\* where _handle_conn continues after a command failed: except BaseException
\* logs it (comms.py:194-195) and the loop goes on to recv
AfterCmdFailed == "recv"

\* DebugServer._handle_conn, lines 177-195: one pass of the loop with data received
HandleConnRecv ==
    /\ UNCHANGED hubVars
    /\ UNCHANGED <<badLines, handlerErrors, acceptMark, conVars, setError>>
    /\ UNCHANGED cliVars
    /\ spc = "recv"
    /\ c2s[conn] # <<>>
    /\ \E k \in 1..Len(c2s[conn]) :
         LET data == SubSeq(c2s[conn], 1, k)
             b == buf \o data
         IN /\ c2s' = [c2s EXCEPT ![conn] = SubSeq(c2s[conn], k + 1, Len(c2s[conn]))]
            /\ IF LinesTaken(b) = 1
               THEN /\ buf' = RestOf(b)
                    /\ linesHandled' = [linesHandled EXCEPT ![conn] = @ + 1]
                    /\ bleWrites' =
                         IF LineOf(b) # <<>>
                         THEN bleWrites \o
                              [i \in 1..Len(HandleCmdWrites(LineOf(b))) |->
                                 [conn |-> conn,
                                  handle |-> HandleCmdWrites(LineOf(b))[i].handle,
                                  data |-> HandleCmdWrites(LineOf(b))[i].data]]
                         ELSE bleWrites
                    /\ cmdErrors' =
                         IF LineOf(b) # <<>> /\ HandleCmdWrites(LineOf(b)) = <<>>
                         THEN [cmdErrors EXCEPT ![conn] = @ + 1]
                         ELSE cmdErrors
                    /\ spc' =
                         IF LineOf(b) # <<>> /\ HandleCmdWrites(LineOf(b)) = <<>>
                         THEN AfterCmdFailed
                         ELSE "recv"
               ELSE /\ buf' = b
                    /\ UNCHANGED <<linesHandled, bleWrites, cmdErrors, spc>>
    /\ UNCHANGED <<running, conn, tconn, nconn, pending, cclosed, sclosed, s2c,
                   sendErrors, clientWrites, linesSent>>
    /\ UNCHANGED reqVars

\* DebugServer._handle_conn, lines 177-180: recv returns "" once the client has
\* closed and everything it sent was received; the loop ends
HandleConnEof ==
    /\ UNCHANGED hubVars
    /\ UNCHANGED auxVars
    /\ UNCHANGED cliVars
    /\ spc = "recv"
    /\ c2s[conn] = <<>>
    /\ conn \in cclosed
    /\ spc' = "finally"
    /\ UNCHANGED <<running, conn, buf, tconn, nconn, pending, c2s, cclosed, sclosed, s2c,
                   sendErrors, bleWrites, clientWrites, linesSent, linesHandled>>
    /\ UNCHANGED reqVars

\* DebugServer.start, line 144: the sink becomes _notify_dummy
StartFinally ==
    /\ UNCHANGED hubVars
    /\ UNCHANGED auxVars
    /\ UNCHANGED cliVars
    /\ spc = "finally"
    /\ notification_sink' = "dummy"
    /\ spc' = "close"
    /\ UNCHANGED <<running, conn, buf, tconn, nconn, pending, c2s, cclosed, sclosed, s2c,
                   sendErrors, bleWrites, clientWrites, linesSent, linesHandled>>
    /\ UNCHANGED <<requester, notify_queue, dpc, cur, callee, received, delivered,
                   dropped, failed, lastSet, eligible>>

\* DebugServer.start, line 145: conn.close(), then back to the loop test
StartClose ==
    /\ UNCHANGED hubVars
    /\ UNCHANGED auxVars
    /\ UNCHANGED cliVars
    /\ spc = "close"
    /\ sclosed' = sclosed \cup {conn}
    /\ spc' = "loop"
    /\ UNCHANGED <<running, conn, buf, tconn, nconn, pending, c2s, cclosed, s2c,
                   sendErrors, bleWrites, clientWrites, linesSent, linesHandled>>
    /\ UNCHANGED reqVars

\* the lambda of line 136 starts: it reads start's variable conn and calls
\* self._notify(conn, x, y)
NotifyBind ==
    /\ UNCHANGED hubVars
    /\ UNCHANGED auxVars
    /\ UNCHANGED cliVars
    /\ dpc = "insink"
    /\ callee = "notify"
    /\ tconn' = conn
    /\ dpc' = "send"
    /\ UNCHANGED <<running, spc, conn, buf, nconn, pending, c2s, cclosed, sclosed, s2c,
                   sendErrors, bleWrites, clientWrites, linesSent, linesHandled>>
    /\ UNCHANGED <<requester, notification_sink, notify_queue, cur, callee, received,
                   delivered, dropped, failed, lastSet, eligible>>

\* the payload of DebugServer._notify (comms.py:155)
NotifyPayload(handle, data) == Body("notification", handle, str2hex(data))

\* DebugServer._notify, lines 155-162: conn.send of the line; an error of send
\* (the socket was closed here, or by the client) is logged
NotifySend ==
    /\ UNCHANGED hubVars
    /\ UNCHANGED auxVars
    /\ UNCHANGED cliVars
    /\ dpc = "send"
    /\ \/ /\ tconn \notin sclosed
          /\ s2c' = [s2c EXCEPT ![tconn] =
                        @ \o JsonDumps(NotifyPayload(cur.handle, cur.data)) \o <<NL>>]
          /\ UNCHANGED sendErrors
       \/ /\ tconn \in sclosed \cup cclosed
          /\ sendErrors' = Append(sendErrors, <<tconn, tconn \in sclosed>>)
          /\ UNCHANGED s2c
    /\ dpc' = "chkshut"
    /\ UNCHANGED <<running, spc, conn, buf, tconn, nconn, pending, c2s, cclosed, sclosed,
                   bleWrites, clientWrites, linesSent, linesHandled>>
    /\ UNCHANGED <<requester, notification_sink, notify_queue, cur, callee, received,
                   delivered, dropped, failed, lastSet, eligible>>

\* DebugServer._notify_dummy, lines 150-152: log, then _check_shutdown
NotifyDummy ==
    /\ UNCHANGED hubVars
    /\ UNCHANGED auxVars
    /\ UNCHANGED cliVars
    /\ dpc = "insink"
    /\ callee = "dummy"
    /\ dpc' = "chkshut"
    /\ UNCHANGED srvVars
    /\ UNCHANGED <<requester, notification_sink, notify_queue, cur, callee, received,
                   delivered, dropped, failed, lastSet, eligible>>

\* DebugServer._check_shutdown (comms.py:166-169), ending the sink call; data[5]
\* of a shorter payload raises IndexError, which the dispatcher logs (lines 52-54)
CheckShutdown ==
    /\ UNCHANGED hubVars
    /\ UNCHANGED auxVars
    /\ UNCHANGED cliVars
    /\ dpc = "chkshut"
    /\ IF Len(cur.data) < 6
       THEN /\ failed' = Append(failed, cur.id)
            /\ UNCHANGED running
       ELSE /\ running' = IF cur.data[6] = MSG_DEVICE_SHUTDOWN THEN FALSE ELSE running
            /\ UNCHANGED failed
    /\ dpc' = "get"
    /\ cur' = NoItem
    /\ callee' = None
    /\ tconn' = 0
    /\ eligible' = {}
    /\ UNCHANGED <<spc, conn, buf, nconn, pending, c2s, cclosed, sclosed, s2c,
                   sendErrors, bleWrites, clientWrites, linesSent, linesHandled>>
    /\ UNCHANGED <<requester, notification_sink, notify_queue, received, delivered,
                   dropped, lastSet>>

\* -------------------------------------------------- DebugServerConnection

\* DebugServerConnection.__init__, lines 213-214: the socket connects; the
\* server's listen(1) holds it until accept
ClientConnect ==
    /\ UNCHANGED hubVars
    /\ UNCHANGED auxVars
    /\ UNCHANGED cliVars
    /\ spc \notin {"init"}
    /\ nconn < MaxConns
    /\ Len(pending) < 1
    /\ nconn' = nconn + 1
    /\ pending' = Append(pending, nconn + 1)
    /\ UNCHANGED <<running, spc, conn, buf, tconn, c2s, cclosed, sclosed, s2c,
                   sendErrors, bleWrites, clientWrites, linesSent, linesHandled>>
    /\ UNCHANGED reqVars

\* faulty variant: every write goes to the hub's hardware handle
WritePayloadFixedHandle(handle, data) == Body("write", 14, str2hex(data))

\* the payload of DebugServerConnection.write (comms.py:226-230)
WritePayload(handle, data) == Body("write", handle, str2hex(data))

RECURSIVE SumUpTo(_, _)
\* f[1] + .. + f[n]
SumUpTo(f, n) == IF n = 0 THEN 0 ELSE f[n] + SumUpTo(f, n - 1)

\* DebugServerConnection.write and _send (comms.py:225-235)
ClientWrite(c, handle, data) ==
    /\ UNCHANGED hubVars
    /\ UNCHANGED auxVars
    /\ UNCHANGED cliVars
    /\ c \in 1..nconn
    /\ c \notin cclosed \cup sclosed
    /\ SumUpTo(linesSent, MaxConns) < MaxWrites
    /\ c2s' = [c2s EXCEPT ![c] = @ \o JsonDumps(WritePayload(handle, data)) \o <<NL>>]
    /\ clientWrites' = [clientWrites EXCEPT ![c] = Append(@, [handle |-> handle, data |-> data])]
    /\ linesSent' = [linesSent EXCEPT ![c] = @ + 1]
    /\ UNCHANGED <<running, spc, conn, buf, tconn, nconn, pending, cclosed, sclosed, s2c,
                   sendErrors, bleWrites, linesHandled>>
    /\ UNCHANGED reqVars

\* command lines DebugServer cannot handle: text that is no JSON, an object
\* of another type, an object without "type"
BadCmdTexts ==
    { <<LB, Junk>>,
      JsonDumps(Body("hello", 14, <<"0", "1">>)),
      JsonDumps(Body(NoKey, 14, <<"0", "1">>)) }

\* a peer of the server's socket sends a line DebugServerConnection.write
\* would not send (sock.send of any text, as at comms.py:235)
ClientSendText(c, text) ==
    /\ UNCHANGED hubVars
    /\ UNCHANGED cliVars
    /\ c \in 1..nconn
    /\ c \notin cclosed \cup sclosed
    /\ SumUpTo(linesSent, MaxConns) < MaxWrites
    /\ c2s' = [c2s EXCEPT ![c] = @ \o text \o <<NL>>]
    /\ linesSent' = [linesSent EXCEPT ![c] = @ + 1]
    /\ badLines' = [badLines EXCEPT ![c] = @ \cup {linesSent[c] + 1}]
    /\ UNCHANGED <<cmdErrors, handlerErrors, acceptMark, conVars, setError>>
    /\ UNCHANGED <<running, spc, conn, buf, tconn, nconn, pending, cclosed, sclosed, s2c,
                   sendErrors, bleWrites, clientWrites, linesHandled>>
    /\ UNCHANGED reqVars

\* DebugServerConnection.__del__ (comms.py:222-223): the client closes its socket
ClientClose(c) ==
    /\ UNCHANGED hubVars
    /\ UNCHANGED auxVars
    /\ UNCHANGED cliVars
    /\ c \in 1..nconn
    /\ c \notin cclosed
    /\ cclosed' = cclosed \cup {c}
    /\ UNCHANGED <<running, spc, conn, buf, tconn, nconn, pending, c2s, sclosed, s2c,
                   sendErrors, bleWrites, clientWrites, linesSent, linesHandled>>
    /\ UNCHANGED reqVars


\* ------------------------------------------- DebugServerConnection reader

\* lines a peer of the socket may send besides relayed notifications: a
\* response, an object of another type, text that is no JSON, an object
\* without "type", and an empty line
PeerTexts ==
    { JsonDumps(Body("response", 14, <<"0", "1">>)),
      JsonDumps(Body("hello", 0, <<>>)),
      <<LB, Junk>>,
      JsonDumps(Body(NoKey, 14, <<"0", "1">>)),
      <<>> }

\* DebugServerConnection.__init__ (comms.py:209-220): connected, reader started
InitClient ==
    /\ notify_handler = None
    /\ cbuf = <<>>
    /\ incoming = <<>>
    /\ rpc = "recv"
    /\ citem = JsonError
    /\ wire = <<>>
    /\ srvGone = FALSE
    /\ forwarded = <<>>
    /\ peerLines = 0
    /\ cdelivered = <<>>
    /\ handlerKept = TRUE
    /\ ragged = FALSE
    /\ handlerErrors = 0

\* DebugServer._notify, lines 155-158, seen from the client: one notification
\* line is sent on the connection
RelayNotify(handle, data) ==
    /\ UNCHANGED hubVars
    /\ UNCHANGED auxVars
    /\ ~srvGone
    /\ Len(forwarded) + peerLines < MaxLines
    /\ wire' = wire \o JsonDumps(NotifyPayload(handle, data)) \o <<NL>>
    /\ forwarded' = Append(forwarded, [handle |-> handle, data |-> data])
    /\ handlerKept' = (handlerKept /\ notify_handler # None)
    /\ UNCHANGED <<notify_handler, cbuf, incoming, rpc, citem, srvGone, peerLines,
                   cdelivered, ragged>>
    /\ UNCHANGED <<reqVars, srvVars>>

\* the peer sends some other line
PeerSend(text) ==
    /\ UNCHANGED hubVars
    /\ UNCHANGED auxVars
    /\ ~srvGone
    /\ Len(forwarded) + peerLines < MaxLines
    /\ wire' = wire \o text \o <<NL>>
    /\ peerLines' = peerLines + 1
    /\ UNCHANGED <<notify_handler, cbuf, incoming, rpc, citem, srvGone, forwarded,
                   cdelivered, handlerKept, ragged>>
    /\ UNCHANGED <<reqVars, srvVars>>

\* the peer closes the connection
PeerClose ==
    /\ UNCHANGED hubVars
    /\ UNCHANGED auxVars
    /\ ~srvGone
    /\ srvGone' = TRUE
    /\ UNCHANGED <<notify_handler, cbuf, incoming, rpc, citem, wire, forwarded, peerLines,
                   cdelivered, handlerKept, ragged>>
    /\ UNCHANGED <<reqVars, srvVars>>

\* number of newlines in a piece of text
CountNL(b) == Cardinality({ i \in 1..Len(b) : b[i] = NL })

\* _recv, lines 239-244: a chunk arrives and is appended to self.buf
ClientRecv ==
    /\ UNCHANGED hubVars
    /\ UNCHANGED auxVars
    /\ rpc = "recv"
    /\ wire # <<>>
    /\ \E k \in 1..Len(wire) :
         /\ cbuf' = cbuf \o SubSeq(wire, 1, k)
         /\ wire' = SubSeq(wire, k + 1, Len(wire))
         /\ ragged' = (ragged \/ (wire[k] # NL /\ CountNL(SubSeq(wire, 1, k)) >= 2))
    /\ rpc' = "loop"
    /\ UNCHANGED <<notify_handler, incoming, citem, srvGone, forwarded, peerLines,
                   cdelivered, handlerKept>>
    /\ UNCHANGED <<reqVars, srvVars>>

\* _recv, lines 239-242: recv returns "" after the server closed; the reader
\* raises KeyboardInterrupt("Server has closed connection")
ClientRecvEof ==
    /\ UNCHANGED hubVars
    /\ UNCHANGED auxVars
    /\ rpc = "recv"
    /\ wire = <<>>
    /\ srvGone
    /\ rpc' = "closed"
    /\ UNCHANGED <<notify_handler, cbuf, incoming, citem, wire, srvGone, forwarded,
                   peerLines, cdelivered, handlerKept, ragged>>
    /\ UNCHANGED <<reqVars, srvVars>>

\* faulty variant: one line per chunk (if "\n" in self.buf)
AfterLineRecv == "recv"

\* where _recv continues after a line: the test of while "\n" in self.buf (line 246)
AfterLine == "loop"

\* faulty variant: a notification that finds no handler is kept in incoming
RouteKeepUnhandled(item, handler) ==
    IF item.type = "notification" /\ handler # None THEN "call"
    ELSE IF item.type \in {"response", "notification"} THEN "store"
    ELSE "drop"

\* _recv, lines 251, 256 and 258: what is done with a parsed line
Route(item, handler) ==
    IF item.type = "notification" /\ handler # None THEN "call"
    ELSE IF item.type = "response" THEN "store"
    ELSE "drop"

\* _recv, lines 246-251 and 256-259: the loop test, and one line taken from
\* self.buf, parsed and routed; json.loads (line 250) and item['type'] (line 251)
\* are outside the try, so ValueError and KeyError end the reader thread
ClientTakeLine ==
    /\ UNCHANGED hubVars
    /\ UNCHANGED auxVars
    /\ rpc = "loop"
    /\ IF ~HasNL(cbuf)
       THEN /\ rpc' = "recv"
            /\ UNCHANGED <<cbuf, citem, incoming>>
       ELSE /\ cbuf' = RestOf(cbuf)
            /\ IF LineOf(cbuf) = <<>>
               THEN /\ rpc' = AfterLine
                    /\ UNCHANGED <<citem, incoming>>
               ELSE LET item == JsonLoads(LineOf(cbuf))
                    IN IF item = JsonError \/ item.type = NoKey
                       THEN /\ rpc' = "crashed"
                            /\ UNCHANGED <<citem, incoming>>
                       ELSE IF Route(item, notify_handler) = "call"
                       THEN /\ rpc' = "call"
                            /\ citem' = item
                            /\ UNCHANGED incoming
                       ELSE IF Route(item, notify_handler) = "store"
                       THEN /\ incoming' = Append(incoming, item)
                            /\ rpc' = AfterLine
                            /\ UNCHANGED citem
                       ELSE /\ rpc' = AfterLine
                            /\ UNCHANGED <<citem, incoming>>
    /\ UNCHANGED <<notify_handler, wire, srvGone, forwarded, peerLines, cdelivered,
                   handlerKept, ragged>>
    /\ UNCHANGED <<reqVars, srvVars>>

\* _recv, lines 252-255: self.notify_handler(item['handle'], unhexlify(item['data']));
\* the attribute is read again; TypeError (no handler, bad hex) is logged
ClientCall ==
    /\ UNCHANGED hubVars
    /\ UNCHANGED <<badLines, cmdErrors, acceptMark, conVars, setError>>
    /\ rpc = "call"
    /\ IF notify_handler = None \/ unhexlify(citem.data) = HexError
       THEN /\ rpc' = AfterLine
            /\ citem' = JsonError
            /\ handlerErrors' = handlerErrors + 1
            /\ UNCHANGED cdelivered
       ELSE /\ cdelivered' = Append(cdelivered,
                                    [handler |-> notify_handler, handle |-> citem.handle,
                                     data |-> unhexlify(citem.data)])
            /\ rpc' = "inhandler"
            /\ UNCHANGED <<citem, handlerErrors>>
    /\ UNCHANGED <<notify_handler, cbuf, incoming, wire, srvGone, forwarded, peerLines,
                   handlerKept, ragged>>
    /\ UNCHANGED <<reqVars, srvVars>>

\* the handler returns (line 253)
ClientHandlerReturn ==
    /\ UNCHANGED hubVars
    /\ UNCHANGED auxVars
    /\ rpc = "inhandler"
    /\ rpc' = AfterLine
    /\ citem' = JsonError
    /\ UNCHANGED <<notify_handler, cbuf, incoming, wire, srvGone, forwarded, peerLines,
                   cdelivered, handlerKept, ragged>>
    /\ UNCHANGED <<reqVars, srvVars>>

\* faulty variant: the handler's exception leaves _recv and the reader ends
AfterHandlerRaisedStop == "crashed"

\* where _recv continues after the handler raised: except BaseException logs
\* it (lines 254-255) and the loop test of line 246 follows
AfterHandlerRaised == AfterLine

\* the handler raises and the exception is logged (lines 253-255)
ClientHandlerRaise ==
    /\ UNCHANGED hubVars
    /\ UNCHANGED <<badLines, cmdErrors, acceptMark, conVars, setError>>
    /\ rpc = "inhandler"
    /\ rpc' = AfterHandlerRaised
    /\ citem' = JsonError
    /\ handlerErrors' = handlerErrors + 1
    /\ UNCHANGED <<notify_handler, cbuf, incoming, wire, srvGone, forwarded, peerLines,
                   cdelivered, handlerKept, ragged>>
    /\ UNCHANGED <<reqVars, srvVars>>

\* the handler a user registers on a DebugServerConnection
ClientHandlers == {"h1"}

\* DebugServerConnection.set_notify_handler (comms.py:261-262)
ClientSetHandler(handler) ==
    /\ UNCHANGED hubVars
    /\ UNCHANGED auxVars
    /\ notify_handler' = handler
    /\ handlerKept' = (handlerKept /\ (handler # None \/ forwarded = <<>>))
    /\ UNCHANGED <<cbuf, incoming, rpc, citem, wire, srvGone, forwarded, peerLines,
                   cdelivered, ragged>>
    /\ UNCHANGED <<reqVars, srvVars>>


\* ------------------------------------------- hub commands (unit tests)

\* pylgbst.constants, as the unit tests' literals show them
MOVE_HUB_HARDWARE_HANDLE == 14
PACKET_VER == 1
MSG_SET_PORT_VAL == 129
PORT_LED == 50
COLOR_RED == 9

\* colours passed to LED.set_color (black, green, red, none)
Colors == {0, 6, COLOR_RED, 255}

\* ConnectionMock.__init__ (tests.py:27-33), no hub built yet
InitHub ==
    /\ hub = "none"
    /\ writes = <<>>
    /\ calls = <<>>
    /\ attached = FALSE
    /\ working = FALSE

\* faulty variant: only the first write is recorded
MockWriteOnce(ws, handle, data) ==
    IF ws = <<>> THEN <<[handle |-> handle, hex |-> str2hex(data)]>> ELSE ws

\* faulty variant: the log is replaced by the newest write
MockWriteReplace(ws, handle, data) == <<[handle |-> handle, hex |-> str2hex(data)]>>

\* faulty variant: the newest write is recorded first
MockWriteFront(ws, handle, data) == <<[handle |-> handle, hex |-> str2hex(data)]>> \o ws

\* ConnectionMock.write (tests.py:51-53): self.writes.append((handle, str2hex(data)))
MockWrite(ws, handle, data) == Append(ws, [handle |-> handle, hex |-> str2hex(data)])

\* HubMock() (tests.py:56-70, 84): MoveHub.__init__ with _wait_for_devices and
\* _report_status overridden; it writes nothing
NewHubMock ==
    /\ hub = "none"
    /\ hub' = "HubMock"
    /\ UNCHANGED <<writes, calls, attached, working>>
    /\ UNCHANGED <<reqVars, srvVars, cliVars, auxVars>>

\* MoveHub(conn) of the earlier revision (test.py:55-57): its constructor makes
\* one write (enabling notifications) before any command
NewMoveHub ==
    /\ hub = "none"
    /\ hub' = "MoveHub"
    /\ writes' = MockWrite(writes, 15, <<1, 0>>)
    /\ UNCHANGED <<calls, attached, working>>
    /\ UNCHANGED <<reqVars, srvVars, cliVars, auxVars>>

\* MoveHub.send: the frame [length, PACKET_VER, msg_type, payload..]; HubMock's
\* revision counts the length byte itself, the earlier revision does not
HubFrame(kind, msg_type, payload) ==
    LET cmd == <<PACKET_VER, msg_type>> \o payload
    IN <<(IF kind = "HubMock" THEN Len(cmd) + 1 ELSE Len(cmd))>> \o cmd

\* LED.set_color: port, the sub-command (0x01 on HubMock's revision, 0x11 on
\* the earlier one), 0x51, mode 0, the colour
LedPayload(kind, color) ==
    <<PORT_LED, (IF kind = "HubMock" THEN 1 ELSE 17), 81, 0, color>>

\* LED(hub, PORT_LED).set_color(color) (tests.py:85-86, test.py:58-59)
LedSetColor(color) ==
    /\ hub # "none"
    /\ Len(calls) < MaxCmds
    /\ writes' = MockWrite(writes, MOVE_HUB_HARDWARE_HANDLE,
                           HubFrame(hub, MSG_SET_PORT_VAL, LedPayload(hub, color)))
    /\ calls' = Append(calls, [op |-> "led", arg |-> color])
    /\ UNCHANGED <<hub, attached, working>>
    /\ UNCHANGED <<reqVars, srvVars, cliVars, auxVars>>

\* more of pylgbst.constants, as the unit tests' literals show them
PORT_AB == 57
MOVEMENT_TYPE == 17
TIMED_GROUP == 10
ANGLED_GROUP == 12
TRAILER == <<100, 127, 3>>

\* default power 1.0 of a motor command, scaled to the hardware range: 0x64
DefaultSpeed == 100

\* durations passed to timed(), in tenths of a second (0.5 s, 1.5 s, 3 s), and
\* angles passed to angled(), in degrees
Durations == {5, 15, 30}
Angles == {90, 360}

\* struct.pack("<H", n) and struct.pack("<I", n): width bytes, lowest first
RECURSIVE LittleEndian(_, _)
LittleEndian(n, width) ==
    IF width = 0 THEN <<>> ELSE <<n % 256>> \o LittleEndian(n \div 256, width - 1)

\* the duration of a timed run: int(seconds * 1000) as 2 bytes, little-endian
DurationBytes(tenths) == LittleEndian(tenths * 100, 2)

\* the angle of an angled run: 4 bytes, little-endian
AngleBytes(angle) == LittleEndian(angle, 4)

\* EncodedMotor._wrap_and_write: port, movement type, the command group, the
\* command's own bytes, primary and secondary speed, trailer
MotorPayload(group, params) ==
    <<PORT_AB, MOVEMENT_TYPE, group>> \o params \o <<DefaultSpeed, DefaultSpeed>> \o TRAILER

\* ConnectionMock.notifier (tests.py:40-47) hands the attach frame
\* '1b0e00 0900 04 39 0227003738' to the hub, which creates motor_AB
MockNotifyAttach ==
    /\ hub # "none"
    /\ ~attached
    /\ attached' = TRUE
    /\ UNCHANGED <<hub, writes, calls, working>>
    /\ UNCHANGED <<reqVars, srvVars, cliVars, auxVars>>

\* ConnectionMock.notifier hands the status frame '1b0e00050082390a'
\* (tests.py:126, 130) to the hub: the motor command in progress is finished
MockNotifyAck ==
    /\ hub # "none"
    /\ working
    /\ working' = FALSE
    /\ UNCHANGED <<hub, writes, calls, attached>>
    /\ UNCHANGED <<reqVars, srvVars, cliVars, auxVars>>

\* a motor command can be issued: on HubMock's revision hub.motor_AB exists
\* only after the attach frame, and the previous command has returned (it
\* returns on its acknowledgement); the earlier revision builds
\* EncodedMotor(hub, PORT_AB) itself (test.py:65) and does not wait
MotorReady ==
    /\ hub # "none"
    /\ hub = "HubMock" => (attached /\ ~working)
    /\ Len(calls) < MaxCmds

\* motor.timed(seconds) (tests.py:127, test.py:66)
MotorTimed(tenths) ==
    /\ MotorReady
    /\ writes' = MockWrite(writes, MOVE_HUB_HARDWARE_HANDLE,
                           HubFrame(hub, MSG_SET_PORT_VAL,
                                    MotorPayload(TIMED_GROUP, DurationBytes(tenths))))
    /\ calls' = Append(calls, [op |-> "timed", arg |-> tenths])
    /\ working' = (hub = "HubMock")
    /\ UNCHANGED <<hub, attached>>
    /\ UNCHANGED <<reqVars, srvVars, cliVars, auxVars>>

\* motor.angled(angle) (tests.py:131, test.py:69)
MotorAngled(angle) ==
    /\ MotorReady
    /\ writes' = MockWrite(writes, MOVE_HUB_HARDWARE_HANDLE,
                           HubFrame(hub, MSG_SET_PORT_VAL,
                                    MotorPayload(ANGLED_GROUP, AngleBytes(angle))))
    /\ calls' = Append(calls, [op |-> "angled", arg |-> angle])
    /\ working' = (hub = "HubMock")
    /\ UNCHANGED <<hub, attached>>
    /\ UNCHANGED <<reqVars, srvVars, cliVars, auxVars>>

Init == InitRequester /\ InitServer /\ InitClient /\ InitHub

Next ==
    \/ \E devices \in DiscoverResults, hub_mac \in HubMacs : connect(devices, hub_mac)
    \/ \E n \in Notifications : on_notification(n[1], n[2])
    \/ DispatchGet
    \/ DispatchCheck
    \/ DispatchCall
    \/ SinkReturn
    \/ SinkRaise
    \/ \E handler \in UserHandlers \cup {None} : set_notify_handler(handler)

Spec == Init /\ [][Next]_vars

\* the calls an application makes on a BLEConnection: connect, step by step,
\* and set_notify_handler, with the hub sending notifications
NextConnect ==
    \/ \E hub_mac \in HubMacs : ConnectCall(hub_mac)
    \/ \E devices \in DiscoverResults : ConnectPass(devices)
    \/ ConnectReturn
    \/ \E handler \in UserHandlers \cup {None} : set_notify_handler(handler)

SpecConnect == Init /\ [][NextConnect]_vars

\* the DebugServer forwarding notifications: the dispatcher thread, the thread
\* running start(), and clients that connect and close
NextServer ==
    \/ \E devices \in DiscoverResults, hub_mac \in HubMacs : connect(devices, hub_mac)
    \/ \E n \in Notifications : on_notification(n[1], n[2])
    \/ DispatchGet
    \/ DispatchCheck
    \/ DispatchCall
    \/ NotifyBind
    \/ NotifySend
    \/ NotifyDummy
    \/ CheckShutdown
    \/ start
    \/ StartLoop
    \/ StartAccept
    \/ StartCheckRunning
    \/ StartSetSink
    \/ HandleConnEof
    \/ StartFinally
    \/ StartClose
    \/ ClientConnect
    \/ \E c \in 1..MaxConns : ClientClose(c)

SpecServer == Init /\ [][NextServer]_vars

\* the steps of the thread that runs DebugServer.start
ServerThread ==
    \/ start
    \/ StartLoop
    \/ StartAccept
    \/ StartCheckRunning
    \/ StartSetSink
    \/ HandleConnEof
    \/ StartFinally
    \/ StartClose

\* the steps of the Requester's dispatcher thread with the server's sinks
DispatcherThread ==
    \/ DispatchGet
    \/ DispatchCheck
    \/ DispatchCall
    \/ NotifyBind
    \/ NotifySend
    \/ NotifyDummy
    \/ CheckShutdown

\* both threads keep being scheduled while they can take a step; the hub and
\* the clients are free to stay silent
SpecServerLive == SpecServer /\ WF_vars(ServerThread) /\ WF_vars(DispatcherThread)

\* the DebugServer relaying commands: the thread running start() and
\* _handle_conn, and clients that connect, write and close
NextRelay ==
    \/ \E devices \in DiscoverResults, hub_mac \in HubMacs : connect(devices, hub_mac)
    \/ start
    \/ StartLoop
    \/ StartAccept
    \/ StartCheckRunning
    \/ StartSetSink
    \/ HandleConnRecv
    \/ HandleConnEof
    \/ StartFinally
    \/ StartClose
    \/ ClientConnect
    \/ \E c \in 1..MaxConns, w \in WriteInputs : ClientWrite(c, w[1], w[2])
    \/ \E c \in 1..MaxConns : ClientClose(c)

SpecRelay == Init /\ [][NextRelay]_vars

\* the DebugServer relaying the commands of its first client, which also sends
\* lines the server cannot handle; later clients connect and close
NextCmd ==
    \/ \E devices \in DiscoverResults, hub_mac \in HubMacs : connect(devices, hub_mac)
    \/ start
    \/ StartLoop
    \/ StartAccept
    \/ StartCheckRunning
    \/ StartSetSink
    \/ HandleConnRecv
    \/ HandleConnEof
    \/ StartFinally
    \/ StartClose
    \/ ClientConnect
    \/ \E w \in WriteInputs : ClientWrite(1, w[1], w[2])
    \/ \E text \in BadCmdTexts : ClientSendText(1, text)
    \/ \E c \in 1..MaxConns : ClientClose(c)

SpecCmd == Init /\ [][NextCmd]_vars

\* a DebugServerConnection, its reader thread and the peer of its socket
NextClient ==
    \/ \E n \in Notifications : RelayNotify(n[1], n[2])
    \/ \E text \in PeerTexts : PeerSend(text)
    \/ PeerClose
    \/ ClientRecv
    \/ ClientRecvEof
    \/ ClientTakeLine
    \/ ClientCall
    \/ ClientHandlerReturn
    \/ ClientHandlerRaise
    \/ \E handler \in ClientHandlers \cup {None} : ClientSetHandler(handler)

SpecClient == Init /\ [][NextClient]_vars

\* the unit tests' hub: a hub is built on a ConnectionMock and commands are issued
NextHub ==
    \/ NewHubMock
    \/ NewMoveHub
    \/ \E color \in Colors : LedSetColor(color)
    \/ MockNotifyAttach
    \/ MockNotifyAck
    \/ \E tenths \in Durations : MotorTimed(tenths)
    \/ \E angle \in Angles : MotorAngled(angle)

SpecHub == Init /\ [][NextHub]_vars

\* ================================================================ claims

Ids(log) == { log[i] : i \in 1..Len(log) }
DeliveredIds == { delivered[i].id : i \in 1..Len(delivered) }
QueuedIds == { notify_queue[i].id : i \in 1..Len(notify_queue) }

\* C1: the sink is invoked with the (handle, data) pairs on_notification
\* received, unaltered, and in the order on_notification received them: the
\* arrival numbers of the invocations strictly increase.
C1_DeliveredInArrivalOrder ==
    \A i \in 1..Len(delivered) :
        /\ delivered[i].id \in 1..Len(received)
        /\ delivered[i].args.handle = received[delivered[i].id].handle
        /\ delivered[i].args.data = received[delivered[i].id].data
        /\ \A j \in 1..(i - 1) : delivered[j].id < delivered[i].id

\* C1 witness: three notifications with differing neighbours were delivered,
\* the second and third having been queued while the sink was still running
C1_Witness ==
    /\ Len(delivered) = 3
    /\ delivered[1].args # delivered[2].args
    /\ delivered[2].args # delivered[3].args
    /\ received[2].busy
    /\ received[3].busy

\* C2: when the sink raises, the exception is caught and logged and the
\* dispatcher is back at queue.get with the queue untouched; the dispatcher
\* thread never ends, and whenever it idles on an empty queue every accepted
\* notification has been dequeued and dispatched (delivered, dropped or failed).
C2_RaiseDoesNotStopDispatch ==
    /\ [](requester # None => dpc \in {"get", "check", "call", "insink"})
    /\ []((dpc = "get" /\ notify_queue = <<>>) =>
            \A id \in 1..Len(received) :
                id \in DeliveredIds \cup Ids(dropped) \cup Ids(failed))
    /\ [][(dpc = "insink" /\ failed' # failed) =>
            /\ failed' = Append(failed, cur.id)
            /\ dpc' = "get"
            /\ notify_queue' = notify_queue]_vars

\* C2 witness: the sink raised on one notification and a later one was delivered
C2_Witness ==
    \E i \in 1..Len(delivered), j \in 1..Len(delivered) :
        /\ delivered[i].id \in Ids(failed)
        /\ delivered[j].id > delivered[i].id

\* a payload whose byte 5 is the message type MSG_DEVICE_SHUTDOWN
IsShutdown(data) == Len(data) >= 6 /\ data[6] = MSG_DEVICE_SHUTDOWN

\* C3 (as claimed): once a DEVICE_SHUTDOWN frame has been dispatched the
\* dispatcher loop has stopped, so no notification enqueued after that frame
\* is delivered to any handler.
C3_NoDeliveryAfterShutdown ==
    \A i \in 1..Len(delivered), j \in 1..Len(delivered) :
        IsShutdown(delivered[i].args.data) => delivered[j].id <= delivered[i].id

\* C4: a dequeued notification is delivered at most once, to one handler, and
\* that handler is one registered at some moment since the notification was
\* dequeued: a handler replaced before the dequeue is never called for it.
C4_OnlyCurrentHandler ==
    /\ [](\A i \in 1..Len(delivered), j \in 1..Len(delivered) :
            delivered[i].id = delivered[j].id => i = j)
    /\ [][delivered' # delivered =>
            /\ Len(delivered') = Len(delivered) + 1
            /\ callee' \in eligible \ {None}]_vars

\* C4 witness: after earlier deliveries, h2 is being called for a notification
\* dequeued when h2 was the latest registration, with none made since
C4_Witness ==
    /\ dpc = "insink"
    /\ callee = "h2"
    /\ eligible = {"h2"}
    /\ Len(delivered) >= 2

\* C5: on_notification only appends to the queue (it runs no sink and moves
\* no thread), it can complete in every state with a Requester (also while the
\* sink is running), and no accepted notification is lost: each is queued, held
\* by the dispatcher, or has been delivered, dropped or failed.
C5_PutNeverWaitsNothingLost ==
    /\ []((requester # None /\ Len(received) < MaxNotif) =>
            \A n \in Notifications : ENABLED on_notification(n[1], n[2]))
    /\ [](\A id \in 1..Len(received) :
            id \in QueuedIds \cup {cur.id} \cup DeliveredIds \cup Ids(dropped) \cup Ids(failed))
    /\ [][received' # received =>
            /\ Len(notify_queue') = Len(notify_queue) + 1
            /\ notify_queue'[Len(notify_queue')].id = Len(received')
            /\ UNCHANGED <<requester, notification_sink, dpc, cur, callee,
                           delivered, dropped, failed>>]_vars

\* C5 witness: a notification accepted while the sink was running was delivered
C5_Witness ==
    \E i \in 1..Len(delivered) : received[delivered[i].id].busy

\* the ble.write calls made for connection c, in call order
BleWritesOf(c) == SelectSeq(bleWrites, LAMBDA e : e.conn = c)

\* C6: every line of a DebugServerConnection.write that the server handles
\* makes exactly one ble.write call, with the handle and the bytes that were
\* written (the hex text decodes to the same bytes), and the ble.write calls
\* of a connection follow the order in which its writes were issued.
C6_WritesRelayedInOrder ==
    \A c \in 1..MaxConns :
        /\ Len(BleWritesOf(c)) = linesHandled[c]
        /\ Len(BleWritesOf(c)) <= Len(clientWrites[c])
        /\ \A i \in 1..Len(BleWritesOf(c)) :
              /\ BleWritesOf(c)[i].handle = clientWrites[c][i].handle
              /\ BleWritesOf(c)[i].data = clientWrites[c][i].data

\* C6 witness: two different writes of one connection reached ble.write
C6_Witness ==
    \E c \in 1..MaxConns :
        /\ Len(BleWritesOf(c)) >= 2
        /\ BleWritesOf(c)[1].handle # BleWritesOf(c)[2].handle
        /\ BleWritesOf(c)[1].data # BleWritesOf(c)[2].data

\* the reader has nothing left to receive or to process
ReaderDrained == rpc \in {"recv", "closed"} /\ wire = <<>>

\* C7: while every line on the connection is a notification forwarded by the
\* server and a handler stays set, the client's handler is invoked with the
\* forwarded (handle, data) pairs, in order and with identical bytes, however
\* recv() cuts the stream: the invocations are a prefix of the forwarded
\* notifications, and all of them once the reader has drained the stream.
C7_RelayTransparent ==
    (peerLines = 0 /\ handlerKept) =>
        /\ rpc # "crashed"
        /\ Len(cdelivered) <= Len(forwarded)
        /\ \A i \in 1..Len(cdelivered) :
              /\ cdelivered[i].handle = forwarded[i].handle
              /\ cdelivered[i].data = forwarded[i].data
        /\ ReaderDrained => (Len(cdelivered) = Len(forwarded) /\ cbuf = <<>>)

\* C7 witness: three forwarded notifications were all delivered although a
\* chunk held two line ends and ended inside the next line
C7_Witness ==
    /\ peerLines = 0
    /\ handlerKept
    /\ ragged
    /\ ReaderDrained
    /\ Len(cdelivered) = 3
    /\ cdelivered[1].data # cdelivered[2].data

\* C8 (as claimed): every complete line a client has sent is handled: when
\* _handle_conn waits in recv with nothing left to receive, and when the server
\* has closed the connection, as many lines were handled as the client sent.
C8_EveryLineHandled ==
    \A c \in 1..MaxConns :
        /\ (spc = "recv" /\ conn = c /\ c2s[c] = <<>>) => linesHandled[c] = linesSent[c]
        /\ c \in sclosed => linesHandled[c] = linesSent[c]

\* C9 (as claimed): a malformed inbound line never ends the reader loop (the
\* error does not escape _recv), and the notification lines received with a
\* handler set are all delivered once the reader has drained the stream.
C9_ReaderSurvivesBadLine ==
    /\ rpc # "crashed"
    /\ (handlerKept /\ ReaderDrained) => Len(cdelivered) = Len(forwarded)

\* C10: on a HubMock with no prior writes, LED.set_color(COLOR_RED) records
\* as first write the payload 0801813201510009; on the earlier revision's
\* MoveHub the same command is 0701813211510009, recorded second, after the
\* hub's initial write.
C10_LedRedPayload ==
    (calls # <<>> /\ calls[1] = [op |-> "led", arg |-> COLOR_RED]) =>
        /\ hub = "HubMock" =>
              /\ writes[1].handle = MOVE_HUB_HARDWARE_HANDLE
              /\ writes[1].hex = <<"0", "8", "0", "1", "8", "1", "3", "2",
                                   "0", "1", "5", "1", "0", "0", "0", "9">>
        /\ hub = "MoveHub" =>
              /\ Len(writes) >= 2
              /\ writes[2].hex = <<"0", "7", "0", "1", "8", "1", "3", "2",
                                   "1", "1", "5", "1", "0", "0", "0", "9">>

\* C10 witness: red was set first on a HubMock, and another colour after it
C10_Witness ==
    /\ hub = "HubMock"
    /\ Len(calls) >= 2
    /\ calls[1].arg = COLOR_RED
    /\ calls[2].arg # COLOR_RED
    /\ Len(writes) = Len(calls)

\* C13: a Requester has one dispatcher thread, started with it, and the thread
\* runs the sink itself: a sink invocation is in progress only while the thread
\* is inside the call for the notification it dequeued last, an invocation
\* starts only when none is in progress, and so the invocation for the
\* previously dequeued notification has returned or raised before.
C13_SinkInvocationsSerialized ==
    /\ []((requester = None) <=> (dpc = "nothread"))
    /\ [](callee # None =>
            /\ dpc = "insink"
            /\ delivered # <<>>
            /\ delivered[Len(delivered)].id = cur.id)
    /\ [][delivered' # delivered =>
            /\ callee = None
            /\ callee' # None
            /\ dpc = "call"
            /\ dpc' = "insink"
            /\ \A i \in 1..Len(delivered) : delivered[i].id < cur.id]_vars
    /\ [][(callee # None /\ callee' = None) => dpc' \in {"get"}]_vars

\* C13 witness: the sink runs for a notification that arrived while the sink
\* was running for an earlier one, and a third one is waiting in the queue
C13_Witness ==
    /\ dpc = "insink"
    /\ callee # None
    /\ Len(delivered) = 2
    /\ received[delivered[2].id].busy
    /\ notify_queue # <<>>

\* of the first n lines connection c sent, those that were no valid write
BadUpTo(c, n) == { j \in badLines[c] : j <= n }

C15_HandlerRaiseIsolated ==
    /\ [][(rpc = "inhandler" /\ handlerErrors' # handlerErrors) =>
            /\ handlerErrors' = handlerErrors + 1
            /\ rpc' = "loop"
            /\ cbuf' = cbuf
            /\ wire' = wire
            /\ notify_handler' = notify_handler
            /\ cdelivered' = cdelivered]_vars
    /\ []((handlerKept /\ ReaderDrained) =>
            /\ Len(cdelivered) = Len(forwarded)
            /\ \A i \in 1..Len(cdelivered) :
                  /\ cdelivered[i].handle = forwarded[i].handle
                  /\ cdelivered[i].data = forwarded[i].data)

\* C15 witness: the handler raised on the first two notifications and is
\* running for the third, all three having arrived with a chunk that held two
\* line ends
C15_Witness ==
    /\ rpc = "inhandler"
    /\ handlerKept
    /\ handlerErrors = 2
    /\ Len(cdelivered) = 3
    /\ ragged
    /\ wire = <<>>

\* a is b with some elements left out
RECURSIVE IsSubSeq(_, _)
IsSubSeq(a, b) ==
    IF a = <<>> THEN TRUE
    ELSE IF b = <<>> THEN FALSE
    ELSE IF Head(a) = Head(b) THEN IsSubSeq(Tail(a), Tail(b))
    ELSE IsSubSeq(a, Tail(b))

\* what the handler was called with, without the handler's name
Pairs(log) == [i \in 1..Len(log) |-> [handle |-> log[i].handle, data |-> log[i].data]]

\* C16: _recv routes a line by its type: a 'notification' line with a handler
\* set goes to one handler call and not to incoming; a 'response' line is
\* appended to incoming and not passed to the handler; any other line, and a
\* 'notification' line with no handler set, changes neither; incoming holds
\* responses only, and the handler calls are the forwarded notifications in
\* order with some left out, none twice and none kept for a later handler.
C16_RoutedByType ==
    /\ [](\A i \in 1..Len(incoming) : incoming[i].type = "response")
    /\ [](Len(incoming) <= peerLines)
    /\ [](IsSubSeq(Pairs(cdelivered), forwarded))
    /\ [][(rpc = "loop" /\ cbuf' # cbuf /\ rpc' # "crashed" /\ LineOf(cbuf) # <<>>) =>
            LET item == JsonLoads(LineOf(cbuf))
            IN /\ cdelivered' = cdelivered
               /\ (item.type = "notification" /\ notify_handler # None) =>
                     (rpc' = "call" /\ citem' = item /\ incoming' = incoming)
               /\ item.type = "response" =>
                     (rpc' = "loop" /\ incoming' = Append(incoming, item))
               /\ (item.type # "response" /\
                   (item.type # "notification" \/ notify_handler = None)) =>
                     (rpc' = "loop" /\ incoming' = incoming /\ citem' = citem)]_vars
    /\ [][cdelivered' # cdelivered =>
            /\ rpc = "call"
            /\ rpc' = "inhandler"
            /\ citem.type = "notification"
            /\ incoming' = incoming
            /\ cdelivered' = Append(cdelivered,
                                    [handler |-> notify_handler, handle |-> citem.handle,
                                     data |-> unhexlify(citem.data)])]_vars
    /\ [][rpc = "inhandler" => (cdelivered' = cdelivered /\ incoming' = incoming)]_vars

\* C16 witness: a notification that arrived with no handler set was dropped, a
\* response was stored, and a later notification went to the handler set since
C16_Witness ==
    /\ ReaderDrained
    /\ cbuf = <<>>
    /\ Len(forwarded) = 2
    /\ forwarded[1] # forwarded[2]
    /\ Len(cdelivered) = 1
    /\ Pairs(cdelivered)[1] = forwarded[2]
    /\ Len(incoming) = 1

\* C17 (as claimed): once _check_shutdown has cleared _running, start()
\* terminates: it returns from its loop or raises KeyboardInterrupt("Shutdown"),
\* and does not stay blocked.
C17_ShutdownEndsStart ==
    (spc # "init" /\ ~running) ~> (spc \in {"returned", "interrupted"})

\* C18: connect() returns only with self.requester set; a Requester is
\* created only while there is none, once, after a discovery round, for the
\* address of a device of that round named "LEGO Move Hub" or at hub_mac, and
\* its dispatcher thread starts with it; a pass that finds no such device
\* discovers again; with a requester present connect() neither discovers nor
\* creates anything.
C18_ConnectBindsOneRequester ==
    /\ [](cpc = "returned" => requester # None)
    /\ [](created = (IF requester = None THEN 0 ELSE 1))
    /\ [][requester' # requester =>
            /\ requester = None
            /\ cpc = "loop"
            /\ cpc' = "returned"
            /\ rounds' = rounds + 1
            /\ created' = created + 1
            /\ dpc' = "get"
            /\ \E i \in 1..Len(discovered') :
                  /\ discovered'[i].address = requester'
                  /\ (discovered'[i].name = LEGO_MOVE_HUB \/ discovered'[i].address = call_mac)]_vars
    /\ [][(cpc = "loop" /\ rounds' = rounds + 1 /\ requester' = None) =>
            /\ cpc' = "loop"
            /\ \A i \in 1..Len(discovered') :
                  /\ discovered'[i].name # LEGO_MOVE_HUB
                  /\ discovered'[i].address # call_mac]_vars
    /\ [][requester # None =>
            /\ requester' = requester
            /\ rounds' = rounds
            /\ created' = created
            /\ dpc' = dpc]_vars

\* C18 witness: a call with hub_mac set bound the Requester to the device at
\* hub_mac in its second discovery round, and a later call without hub_mac on
\* the connected object has left the loop without another round
C18_Witness ==
    /\ cpc = "returned"
    /\ call_mac = None
    /\ rounds = 2
    /\ requester = "00:16:53:B2"
    /\ created = 1

\* C19 (as claimed): a notification the dispatcher has finished with was
\* either delivered to the sink or, no sink being registered, dropped with a
\* warning, and never both; no notification is delivered or dropped twice.
C19_DeliveredOrDropped ==
    /\ \A id \in 1..Len(received) :
          (id \notin QueuedIds /\ id # cur.id) =>
              (id \in DeliveredIds) # (id \in Ids(dropped))
    /\ \A i \in 1..Len(delivered), j \in 1..Len(delivered) :
          delivered[i].id = delivered[j].id => i = j
    /\ \A i \in 1..Len(dropped), j \in 1..Len(dropped) :
          dropped[i] = dropped[j] => i = j

WriteOf(i) == IF hub = "MoveHub" THEN i + 1 ELSE i

\* C11: a timed run on the motor at port AB with default power, issued once
\* the attach frame for port 0x39 was processed, makes exactly one write: for
\* 1.5 s the payload 0d018139110adc056464647f03 (0c018139110adc056464647f03
\* on the earlier revision); in general bytes 6..7 are seconds x 1000 as a
\* 2-byte little-endian integer, followed by 64 64 64 7f 03.
C11_TimedRunPayload ==
    /\ Len(writes) = (IF hub = "MoveHub" THEN Len(calls) + 1 ELSE Len(calls))
    /\ \A i \in 1..Len(calls) :
          calls[i].op = "timed" =>
              LET w == writes[WriteOf(i)]
                  bytes == unhexlify(w.hex)
              IN /\ hub = "HubMock" => attached
                 /\ w.handle = MOVE_HUB_HARDWARE_HANDLE
                 /\ Len(bytes) = 13
                 /\ bytes[7] + 256 * bytes[8] = calls[i].arg * 100
                 /\ SubSeq(bytes, 9, 13) = <<100, 100, 100, 127, 3>>
                 /\ (calls[i].arg = 15 /\ hub = "HubMock") =>
                        w.hex = <<"0", "d", "0", "1", "8", "1", "3", "9", "1", "1", "0", "a",
                                  "d", "c", "0", "5", "6", "4", "6", "4", "6", "4", "7", "f",
                                  "0", "3">>
                 /\ (calls[i].arg = 15 /\ hub = "MoveHub") =>
                        w.hex = <<"0", "c", "0", "1", "8", "1", "3", "9", "1", "1", "0", "a",
                                  "d", "c", "0", "5", "6", "4", "6", "4", "6", "4", "7", "f",
                                  "0", "3">>

\* C11 witness: on a HubMock the attach frame was processed and a timed run of
\* 1.5 s made the first write; a run of another duration followed
C11_Witness ==
    /\ hub = "HubMock"
    /\ attached
    /\ Len(calls) >= 2
    /\ calls[1] = [op |-> "timed", arg |-> 15]
    /\ calls[2].op = "timed"
    /\ calls[2].arg # 15
    /\ Len(writes) = Len(calls)

\* C12: an angled run on the motor at port AB with default power, issued after
\* the preceding timed run was acknowledged, appends exactly one write, the
\* next one after the timed run's: for 90 degrees the payload
\* 0f018139110c5a0000006464647f03 (0e018139110c5a0000006464647f03 on the
\* earlier revision); in general bytes 6..9 are the angle as a 4-byte
\* little-endian integer.
C12_AngledRunPayload ==
    [][(calls' # calls /\ calls'[Len(calls')].op = "angled") =>
          LET angle == calls'[Len(calls')].arg
              w == writes'[Len(writes')]
              bytes == unhexlify(w.hex)
          IN /\ hub = "HubMock" => ~working
             /\ Len(writes') = Len(writes) + 1
             /\ SubSeq(writes', 1, Len(writes)) = writes
             /\ w.handle = MOVE_HUB_HARDWARE_HANDLE
             /\ Len(bytes) = 15
             /\ bytes[7] + 256 * bytes[8] + 65536 * bytes[9] + 16777216 * bytes[10] = angle
             /\ (angle = 90 /\ hub = "HubMock") =>
                    w.hex = <<"0", "f", "0", "1", "8", "1", "3", "9", "1", "1", "0", "c",
                              "5", "a", "0", "0", "0", "0", "0", "0", "6", "4", "6", "4",
                              "6", "4", "7", "f", "0", "3">>
             /\ (angle = 90 /\ hub = "MoveHub") =>
                    w.hex = <<"0", "e", "0", "1", "8", "1", "3", "9", "1", "1", "0", "c",
                              "5", "a", "0", "0", "0", "0", "0", "0", "6", "4", "6", "4",
                              "6", "4", "7", "f", "0", "3">>]_vars

\* C12 witness: on a HubMock a timed run of 1.5 s was acknowledged and the
\* angled run to 90 degrees made the second write
C12_Witness ==
    /\ hub = "HubMock"
    /\ calls = <<[op |-> "timed", arg |-> 15], [op |-> "angled", arg |-> 90]>>
    /\ Len(writes) = 2
    /\ writes[2].hex[12] = "c"

\* C21 (as claimed): conn.send of _notify never runs on a connection after
\* start() has closed it, under any interleaving of the dispatcher thread
\* and the thread running start(): no send was made on a socket the server
\* had closed.
C21_NoSendAfterClose ==
    \A i \in 1..Len(sendErrors) : ~sendErrors[i][2]


\* the handlers an application passes to set_notify_handler
SetArguments == UserHandlers \cup {None}

\* C22: set_notify_handler(handler) on a BLEConnection that has no requester
\* (connect has not succeeded) raises RuntimeError to its caller, registers
\* no handler and changes nothing of the connection; with a requester it
\* returns normally with requester.notification_sink set to handler, and
\* changes nothing else.
C22_SetNotifyHandler ==
    /\ [](requester = None => notification_sink = None /\ lastSet = None)
    /\ [](requester = None =>
            \A h \in SetArguments :
                /\ ENABLED (set_notify_handler(h) /\ setError' = "RuntimeError")
                /\ ~ENABLED (set_notify_handler(h) /\ setError' # "RuntimeError"))
    /\ [](requester # None =>
            \A h \in SetArguments :
                /\ ENABLED (set_notify_handler(h) /\ notification_sink' = h /\ setError' = "none")
                /\ ~ENABLED (set_notify_handler(h) /\ ~(notification_sink' = h /\ setError' = "none")))
    /\ [][(requester = None /\ setError' # setError) =>
            /\ setError' = "RuntimeError"
            /\ UNCHANGED <<requester, notification_sink, notify_queue, dpc, cur, callee,
                           received, delivered, dropped, failed, lastSet, eligible>>
            /\ UNCHANGED <<srvVars, cliVars, hubVars, conVars>>]_vars
    /\ [][(requester # None /\ (notification_sink' # notification_sink \/ lastSet' # lastSet
                                                                        \/ setError' # setError)) =>
            /\ notification_sink' = lastSet'
            /\ setError' = "none"
            /\ UNCHANGED <<requester, notify_queue, dpc, cur, callee, received, delivered,
                           dropped, failed>>
            /\ UNCHANGED <<srvVars, cliVars, hubVars, conVars>>]_vars

\* C22 witness: while a connect call was still discovering, with no requester
\* yet, a set_notify_handler call has raised RuntimeError and no handler is
\* registered
C22_Witness ==
    /\ requester = None
    /\ cpc = "loop"
    /\ rounds >= 1
    /\ setError = "RuntimeError"
    /\ notification_sink = None
    /\ lastSet = None

====
